---- MODULE Spec2Model ----
(***************************************************************************)
(* Model of monitor_fs.cpp: an inotify watcher.  main() opens an inotify   *)
(* descriptor, registers one watch, then loops: test gblExitRequested,     *)
(* read() a buffer of packed inotify_event records, walk the buffer and    *)
(* dump every record.  After the loop it decides `failure` from errno and  *)
(* bytesRead, removes the watch, closes the descriptor and returns.        *)
(* handle_signals() runs asynchronously and sets gblExitRequested.         *)
(***************************************************************************)
EXTENDS Integers, Sequences, FiniteSets, TLC

(***************************************************************************)
(* Program constants and model bounds                                      *)
(***************************************************************************)

\* sizeof(struct inotify_event): wd, mask, cookie, len, 4 bytes each
HeaderSize == 16

\* NAME_MAX + 1 (linux/limits.h), the name part of minBufferSize
NameMaxPlus1 == 256

\* const size_t minBufferSize = sizeof(struct inotify_event) + NAME_MAX + 1
minBufferSize == HeaderSize + NameMaxPlus1

\* largest number of records one read() delivers in the model
MaxRecs == 2

\* number of most recent read() outcomes remembered in hist
MaxHist == 3

\* the sixteen inotify flag bits named in dump_inotify_event (sys/inotify.h)
IN_ACCESS == 1
IN_MODIFY == 2
IN_ATTRIB == 4
IN_CLOSE_WRITE == 8
IN_CLOSE_NOWRITE == 16
IN_OPEN == 32
IN_MOVED_FROM == 64
IN_MOVED_TO == 128
IN_CREATE == 256
IN_DELETE == 512
IN_DELETE_SELF == 1024
IN_MOVE_SELF == 2048
IN_UNMOUNT == 8192
IN_Q_OVERFLOW == 16384
IN_IGNORED == 32768
IN_ISDIR == 1073741824

\* static std::map<uint32_t, std::string> codes: a std::map is iterated in
\* ascending key order, whatever the order of its initializer list
codes ==
    << [bit |-> IN_ACCESS,        name |-> "IN_ACCESS"],
       [bit |-> IN_MODIFY,        name |-> "IN_MODIFY"],
       [bit |-> IN_ATTRIB,        name |-> "IN_ATTRIB"],
       [bit |-> IN_CLOSE_WRITE,   name |-> "IN_CLOSE_WRITE"],
       [bit |-> IN_CLOSE_NOWRITE, name |-> "IN_CLOSE_NOWRITE"],
       [bit |-> IN_OPEN,          name |-> "IN_OPEN"],
       [bit |-> IN_MOVED_FROM,    name |-> "IN_MOVED_FROM"],
       [bit |-> IN_MOVED_TO,      name |-> "IN_MOVED_TO"],
       [bit |-> IN_CREATE,        name |-> "IN_CREATE"],
       [bit |-> IN_DELETE,        name |-> "IN_DELETE"],
       [bit |-> IN_DELETE_SELF,   name |-> "IN_DELETE_SELF"],
       [bit |-> IN_MOVE_SELF,     name |-> "IN_MOVE_SELF"],
       [bit |-> IN_UNMOUNT,       name |-> "IN_UNMOUNT"],
       [bit |-> IN_Q_OVERFLOW,    name |-> "IN_Q_OVERFLOW"],
       [bit |-> IN_IGNORED,       name |-> "IN_IGNORED"],
       [bit |-> IN_ISDIR,         name |-> "IN_ISDIR"] >>

\* chars followed by NUL bytes up to n bytes: the name field as the kernel
\* writes it (NUL-terminated and padded)
Pad(chars, n) == chars \o [i \in 1..(n - Len(chars)) |-> 0]

\* the records the kernel can place in the buffer: an event on the watched
\* object itself carries no name (len = 0); an event on a directory entry
\* carries the entry's name, here "a" or "d" padded to 16 bytes
Records ==
    { [wd |-> 1, mask |-> IN_OPEN, cookie |-> 0, len |-> 0, name |-> <<>>],
      [wd |-> 1, mask |-> IN_CREATE, cookie |-> 0, len |-> 16,
       name |-> Pad(<<97>>, 16)],
      [wd |-> 1, mask |-> IN_CREATE + IN_ISDIR, cookie |-> 0, len |-> 16,
       name |-> Pad(<<100>>, 16)] }

\* what the bytes after the data of the buffer may hold (memory never
\* written by this read): a NUL at once, or one stale non-NUL byte first
StaleTails == {<<0>>, <<120, 0>>}

\* byte counts of a read() that succeeds with less than one header
ShortCounts == {0, 8}

\* values the uninitialized `ssize_t bytesRead` may hold before the first read
UninitBytes == {-1, 0, HeaderSize, 2 * HeaderSize}

\* errno values: untouched, EINTR, any other error number
Errnos == {"E0", "EINTR", "EOTHER"}

VARIABLES
    pc,                \* position of main()
    gblExitRequested,  \* the flag written by handle_signals
    errno,             \* thread-local errno
    bytesRead,         \* ssize_t bytesRead
    buf,               \* contents of uptrBuffer, as the sequence of records in it
    off,               \* buffer - uptrBuffer.get(), the walking pointer
    failure,           \* int failure
    exitCode,          \* value returned by main, -1 while running
    session,           \* kernel side: "unopened", "open", "watching", "unwatched", "closed"
    log,               \* records dumped since the latest read() returned, in order
    cleanup,           \* calls to inotify_rm_watch / close made so far, in order
    reported,          \* error message written to cerr after the loop
    hist,              \* the last MaxHist read() outcomes
    exitCause,         \* how the loop was left: "none", "flag", "ioerror", "short"
    sigAt,             \* pc at which the first signal was handled, "none" before
    out,               \* what dump_inotify_event printed for each record of log
    intr               \* a handler ran while the current read() was blocked

vars == <<pc, gblExitRequested, errno, bytesRead, buf, off, failure, exitCode,
          session, log, cleanup, reported, hist, exitCause, sigAt, out, intr>>

(***************************************************************************)
(* Helpers                                                                 *)
(***************************************************************************)

\* all sequences over S of length lo..hi
SeqsOf(S, lo, hi) == UNION {[1..n -> S] : n \in lo..hi}

\* total size in bytes of one record: header plus name
RecSize(r) == HeaderSize + r.len

RECURSIVE TotalLen(_)
\* size in bytes of a sequence of records laid out back to back
TotalLen(recs) ==
    IF recs = <<>> THEN 0 ELSE RecSize(Head(recs)) + TotalLen(Tail(recs))

\* byte offset at which the i-th record of recs starts
StartOf(recs, i) == TotalLen(SubSeq(recs, 1, i - 1))

\* a 32-bit integer as its four bytes in memory (little-endian); with the
\* floor division of TLA+ a negative int yields its two's complement bytes
LE32(v) ==
    << v % 256, (v \div 256) % 256, (v \div 65536) % 256, (v \div 16777216) % 256 >>

\* the uint32_t stored in the four bytes at byte offset o of mem (the
\* values of the model stay below 2^31)
FromLE32(mem, o) ==
    mem[o + 1] + 256 * mem[o + 2] + 65536 * mem[o + 3] + 16777216 * mem[o + 4]

\* the int (two's complement) stored in the four bytes at byte offset o
FromLE32Signed(mem, o) ==
    mem[o + 1] + 256 * mem[o + 2] + 65536 * mem[o + 3]
        + 16777216 * (IF mem[o + 4] >= 128 THEN mem[o + 4] - 256 ELSE mem[o + 4])

\* the bytes of one struct inotify_event followed by its name
RecBytes(r) ==
    LE32(r.wd) \o LE32(r.mask) \o LE32(r.cookie) \o LE32(r.len) \o r.name

RECURSIVE Mem(_)
\* the bytes of the buffer holding recs back to back
Mem(recs) == IF recs = <<>> THEN <<>> ELSE RecBytes(Head(recs)) \o Mem(Tail(recs))

\* the struct found by reinterpret_cast at byte offset o of the buffer: the
\* four header fields read from the bytes there; a header that does not lie
\* within the bytes of recs reads as an empty header (the walk of main never
\* produces such an offset, see WalkOnRecordStarts)
EventAt(recs, o) ==
    LET mem == Mem(recs)
    IN  IF o + HeaderSize <= Len(mem)
           THEN [wd     |-> FromLE32Signed(mem, o),
                 mask   |-> FromLE32(mem, o + 4),
                 cookie |-> FromLE32(mem, o + 8),
                 len    |-> FromLE32(mem, o + 12)]
           ELSE [wd |-> 0, mask |-> 0, cookie |-> 0, len |-> 0]

RECURSIVE CStr(_, _)
\* operator<<(const char *): the bytes of mem from byte offset o up to the
\* first NUL
CStr(mem, o) ==
    IF o >= Len(mem) \/ mem[o + 1] = 0 THEN <<>>
    ELSE <<mem[o + 1]>> \o CStr(mem, o + 1)

RECURSIVE BitAnd(_, _)
\* a & b on unsigned integers
BitAnd(a, b) ==
    IF a = 0 \/ b = 0 THEN 0
    ELSE (a % 2) * (b % 2) + 2 * BitAnd(a \div 2, b \div 2)

\* variant of Categories: a flag is reported only when the mask equals it
CategoriesExactMatch(mask) ==
    LET Hit(c) == mask = c.bit
    IN  [i \in 1..Len(SelectSeq(codes, Hit)) |-> SelectSeq(codes, Hit)[i].name]

\* the names printed under "Event mask includes:", lines 60-67
Categories(mask) ==
    LET Hit(c) == BitAnd(mask, c.bit) # 0
    IN  [i \in 1..Len(SelectSeq(codes, Hit)) |-> SelectSeq(codes, Hit)[i].name]

\* what dump_inotify_event prints for the struct at byte offset o of mem
\* (lines 53-67); iNotifyEvent->name is printed as a C string
Dumped(mem, o) ==
    [wd     |-> FromLE32Signed(mem, o),
     mask   |-> FromLE32(mem, o + 4),
     cookie |-> FromLE32(mem, o + 8),
     len    |-> FromLE32(mem, o + 12),
     name   |-> CStr(mem, o + HeaderSize),
     cats   |-> Categories(FromLE32(mem, o + 4))]

\* the most recent read() outcome, "none" before the first
Last(h) == IF h = <<>> THEN "none" ELSE h[Len(h)]

\* the outcome before the most recent one
Prev(h) == IF Len(h) < 2 THEN "none" ELSE h[Len(h) - 1]

\* keep the last MaxHist outcomes
Remember(h, x) ==
    LET h2 == Append(h, x)
    IN  IF Len(h2) > MaxHist THEN SubSeq(h2, Len(h2) - MaxHist + 1, Len(h2)) ELSE h2

\* a library call that succeeds may still leave another value in errno
\* (std::cout output): errno keeps its value or takes a non-EINTR one
AfterOutput(e) == {e, "EOTHER"}

(***************************************************************************)
(* Initial state: handler installed, about to call inotify_init()          *)
(***************************************************************************)
Init ==
    /\ pc = "init"
    /\ gblExitRequested = FALSE
    /\ errno = "E0"
    /\ bytesRead \in UninitBytes
    /\ buf = <<>>
    /\ off = 0
    /\ failure = 0
    /\ exitCode = -1
    /\ session = "unopened"
    /\ log = <<>>
    /\ cleanup = <<>>
    /\ reported = "none"
    /\ hist = <<>>
    /\ exitCause = "none"
    /\ sigAt = "none"
    /\ out = <<>>
    /\ intr = FALSE

(***************************************************************************)
(* handle_signals: asynchronous, may run at any point before main returns  *)
(***************************************************************************)
\* variant of handle_signals: the handler also does I/O that fails, so errno
\* is overwritten behind main's back
handle_signals_writes_errno ==
    /\ pc # "done"
    /\ gblExitRequested' = TRUE
    /\ errno' = "EOTHER"
    /\ sigAt' = IF sigAt = "none" THEN pc ELSE sigAt
    /\ intr' = (intr \/ pc = "blocked")
    /\ UNCHANGED <<pc, bytesRead, buf, off, failure, exitCode, session,
                   log, cleanup, reported, hist, exitCause, out>>

handle_signals ==
    /\ pc # "done"
    /\ gblExitRequested' = TRUE
    /\ sigAt' = IF sigAt = "none" THEN pc ELSE sigAt
    /\ intr' = (intr \/ pc = "blocked")
    /\ UNCHANGED <<pc, errno, bytesRead, buf, off, failure, exitCode, session,
                   log, cleanup, reported, hist, exitCause, out>>

(***************************************************************************)
(* main: set-up                                                            *)
(***************************************************************************)
\* inotifyFd = inotify_init(); on failure report and return 1
InotifyInit ==
    /\ pc = "init"
    /\ \/ /\ session' = "open"
          /\ pc' = "addwatch"
          /\ UNCHANGED <<errno, exitCode>>
       \/ /\ errno' = "EOTHER"
          /\ pc' = "done"
          /\ exitCode' = 1
          /\ UNCHANGED session
    /\ UNCHANGED <<gblExitRequested, bytesRead, buf, off, failure, log, cleanup,
                   reported, hist, exitCause, sigAt, out, intr>>

\* variant of AddWatch: the result is not tested, the loop is entered anyway
AddWatchUnchecked ==
    /\ pc = "addwatch"
    /\ \/ /\ session' = "watching"
          /\ UNCHANGED errno
       \/ /\ errno' = "EOTHER"
          /\ UNCHANGED session
    /\ pc' = "check"
    /\ UNCHANGED <<gblExitRequested, bytesRead, buf, off, failure, exitCode, log,
                   cleanup, reported, hist, exitCause, sigAt, out, intr>>

\* variant of AddWatch: the failure path returns without closing inotifyFd
AddWatchLeaksFd ==
    /\ pc = "addwatch"
    /\ \/ /\ session' = "watching"
          /\ pc' = "check"
          /\ UNCHANGED <<errno, exitCode, cleanup>>
       \/ /\ errno' = "EOTHER"
          /\ pc' = "done"
          /\ exitCode' = 1
          /\ UNCHANGED <<session, cleanup>>
    /\ UNCHANGED <<gblExitRequested, bytesRead, buf, off, failure, log,
                   reported, hist, exitCause, sigAt, out, intr>>

\* watchDescriptor = inotify_add_watch(...); on failure close and return 1
AddWatch ==
    /\ pc = "addwatch"
    /\ \/ /\ session' = "watching"
          /\ pc' = "check"
          /\ UNCHANGED <<errno, exitCode, cleanup>>
       \/ /\ errno' = "EOTHER"
          /\ \E ok \in BOOLEAN : cleanup' = Append(cleanup, [op |-> "close", ok |-> ok])
          /\ session' = "closed"
          /\ pc' = "done"
          /\ exitCode' = 1
    /\ UNCHANGED <<gblExitRequested, bytesRead, buf, off, failure, log,
                   reported, hist, exitCause, sigAt, out, intr>>

(***************************************************************************)
(* main: the run loop                                                      *)
(***************************************************************************)
\* variant of LoopCond: the loop condition does not look at the flag
LoopCondIgnoresFlag(flag) == TRUE

\* while(!gblExitRequested)
LoopCond(flag) == ~flag

CheckFlag ==
    /\ pc = "check"
    /\ IF LoopCond(gblExitRequested)
          THEN pc' = "call" /\ UNCHANGED exitCause
          ELSE pc' = "post" /\ exitCause' = "flag"
    /\ UNCHANGED <<gblExitRequested, errno, bytesRead, buf, off, failure, exitCode,
                   session, log, cleanup, reported, hist, sigAt, out, intr>>

\* char *buffer = uptrBuffer.get(); the read() system call is entered and blocks
EnterRead ==
    /\ pc = "call"
    /\ pc' = "blocked"
    /\ off' = 0
    /\ UNCHANGED <<gblExitRequested, errno, bytesRead, buf, failure, exitCode,
                   session, log, cleanup, reported, hist, exitCause, sigAt, out, intr>>

\* variant of AfterRead: EINTR is treated like any other read error
AfterReadEintrBreaks(n, e) ==
    IF n < 0 THEN "break"
    ELSE IF n < HeaderSize THEN "break" ELSE "dispatch"

\* variant of AfterRead: a 0-byte read is taken as "nothing yet", retry
AfterReadZeroRetries(n, e) ==
    IF n < 0
       THEN IF e = "EINTR" THEN "continue" ELSE "break"
       ELSE IF n = 0 THEN "continue"
       ELSE IF n < HeaderSize THEN "break" ELSE "dispatch"

\* the branch taken on the value read() returned (n) with errno e
AfterRead(n, e) ==
    IF n < 0
       THEN IF e = "EINTR" THEN "continue" ELSE "break"
       ELSE IF n < HeaderSize THEN "break" ELSE "dispatch"

\* name of a read() outcome, as the environment produced it
OutcomeOf(n, e) ==
    IF n < 0
       THEN IF e = "EINTR" THEN "Interrupted" ELSE "IoError"
       ELSE IF n < HeaderSize THEN "Short" ELSE "Success"

\* read() returns n (errno e when n < 0) having stored recs; lines 121-132
ReadReturns(n, e, recs) ==
    /\ pc = "blocked"
    /\ bytesRead' = n
    /\ buf' = recs
    /\ hist' = Remember(hist, OutcomeOf(n, e))
    /\ LET branch == AfterRead(n, e)
       IN  /\ pc' = CASE branch = "continue" -> "check"
                      [] branch = "break"    -> "post"
                      [] OTHER               -> "dispatch"
           /\ exitCause' = IF branch = "break"
                              THEN (IF n < 0 THEN "ioerror" ELSE "short")
                              ELSE exitCause
           /\ log' = <<>>
           /\ out' = <<>>
           /\ intr' = FALSE
           /\ errno' \in IF branch = "dispatch" THEN AfterOutput(e) ELSE {e}
    /\ UNCHANGED <<gblExitRequested, off, failure, exitCode, session, cleanup,
                   reported, sigAt>>

\* read() fails with EINTR: a signal handler ran while it was blocked
ReadInterrupted == ReadReturns(-1, "EINTR", buf)

\* read() fails with another error
ReadIoError == ReadReturns(-1, "EOTHER", buf)

\* read() succeeds with fewer bytes than one header
ReadShort == \E n \in ShortCounts : ReadReturns(n, errno, buf)

\* read() succeeds with one or more whole records
ReadSuccess ==
    \E recs \in SeqsOf(Records, 1, MaxRecs) :
        /\ TotalLen(recs) <= minBufferSize
        /\ ReadReturns(TotalLen(recs), errno, recs)

\* while(buffer < bufferEnd)
MoreEvents(o, n) == o < n

\* variant of Advance: only the name length is added, the header is not
AdvanceNameOnly(o, ev) == o + ev.len

\* variant of Advance: the name that follows the header is not skipped
AdvanceHeaderOnly(o, ev) == o + HeaderSize

\* buffer += sizeof(struct inotify_event) + iNotifyEvent->len
Advance(o, ev) == o + HeaderSize + ev.len

\* one turn of the inner loop: dump_inotify_event and advance
DumpEvent ==
    /\ pc = "dispatch"
    /\ MoreEvents(off, bytesRead)
    /\ LET ev == EventAt(buf, off)
       IN  /\ log' = Append(log, [off |-> off, size |-> Advance(off, ev) - off,
                                  mask |-> ev.mask, len |-> ev.len])
           /\ off' = Advance(off, ev)
    /\ \E tail \in StaleTails : out' = Append(out, Dumped(Mem(buf) \o tail, off))
    /\ errno' \in AfterOutput(errno)
    /\ UNCHANGED <<pc, gblExitRequested, bytesRead, buf, failure, exitCode, session,
                   cleanup, reported, hist, exitCause, sigAt, intr>>

\* variant of DumpDone: the inner loop also stops once the flag is set
DumpDoneOnFlag ==
    /\ pc = "dispatch"
    /\ ~MoreEvents(off, bytesRead) \/ gblExitRequested
    /\ pc' = "check"
    /\ UNCHANGED <<gblExitRequested, errno, bytesRead, buf, off, failure, exitCode,
                   session, log, cleanup, reported, hist, exitCause, sigAt, out, intr>>

\* the inner loop ends, back to the while condition
DumpDone ==
    /\ pc = "dispatch"
    /\ ~MoreEvents(off, bytesRead)
    /\ pc' = "check"
    /\ UNCHANGED <<gblExitRequested, errno, bytesRead, buf, off, failure, exitCode,
                   session, log, cleanup, reported, hist, exitCause, sigAt, out, intr>>

(***************************************************************************)
(* main: after the loop                                                    *)
(***************************************************************************)
\* variant of Diagnosis: the errno != EINTR test is missing
DiagnosisIgnoresErrno(e, n) ==
    IF n < 0 THEN "io"
    ELSE IF n # HeaderSize THEN "short" ELSE "none"

\* which message lines 143-156 write to cerr
Diagnosis(e, n) ==
    IF e # "EINTR"
       THEN IF n < 0 THEN "io"
            ELSE IF n # HeaderSize THEN "short" ELSE "none"
       ELSE "none"

\* variant of Failure: the read-error branch reports but leaves failure at 0
FailureOnlyOnShort(e, n) == IF Diagnosis(e, n) = "short" THEN 1 ELSE 0

\* the value lines 143-156 leave in `failure`
Failure(e, n) == IF Diagnosis(e, n) = "none" THEN 0 ELSE 1

PostLoop ==
    /\ pc = "post"
    /\ failure' = Failure(errno, bytesRead)
    /\ reported' = Diagnosis(errno, bytesRead)
    /\ pc' = "rmwatch"
    /\ UNCHANGED <<gblExitRequested, errno, bytesRead, buf, off, exitCode, session,
                   log, cleanup, hist, exitCause, sigAt, out, intr>>

\* errno after a system call whose result the code ignores: set when it failed
SysErrno(ok, e) == IF ok THEN e ELSE "EOTHER"

\* variant of RmWatch: the watch is removed only after a clean loop exit
RmWatchOnlyWhenClean ==
    /\ pc = "rmwatch"
    /\ IF failure = 0
          THEN \E ok \in BOOLEAN :
                  /\ cleanup' = Append(cleanup, [op |-> "rm_watch", ok |-> ok])
                  /\ errno' = SysErrno(ok, errno)
          ELSE UNCHANGED <<cleanup, errno>>
    /\ session' = "unwatched"
    /\ pc' = "close"
    /\ UNCHANGED <<gblExitRequested, bytesRead, buf, off, failure, exitCode,
                   log, reported, hist, exitCause, sigAt, out, intr>>

\* inotify_rm_watch(inotifyFd, watchDescriptor); result ignored
RmWatch ==
    /\ pc = "rmwatch"
    /\ \E ok \in BOOLEAN :
          /\ cleanup' = Append(cleanup, [op |-> "rm_watch", ok |-> ok])
          /\ errno' = SysErrno(ok, errno)
    /\ session' = "unwatched"
    /\ pc' = "close"
    /\ UNCHANGED <<gblExitRequested, bytesRead, buf, off, failure, exitCode,
                   log, reported, hist, exitCause, sigAt, out, intr>>

\* close(inotifyFd); result ignored
Close ==
    /\ pc = "close"
    /\ \E ok \in BOOLEAN :
          /\ cleanup' = Append(cleanup, [op |-> "close", ok |-> ok])
          /\ errno' = SysErrno(ok, errno)
    /\ session' = "closed"
    /\ pc' = "return"
    /\ UNCHANGED <<gblExitRequested, bytesRead, buf, off, failure, exitCode,
                   log, reported, hist, exitCause, sigAt, out, intr>>

\* variant of Return: a failed clean-up call turns the exit code into 1
ReturnCleanupAware ==
    /\ pc = "return"
    /\ exitCode' = IF \E i \in 1..Len(cleanup) : ~cleanup[i].ok THEN 1 ELSE failure
    /\ pc' = "done"
    /\ UNCHANGED <<gblExitRequested, errno, bytesRead, buf, off, failure, session,
                   log, cleanup, reported, hist, exitCause, sigAt, out, intr>>

\* return failure
Return ==
    /\ pc = "return"
    /\ exitCode' = failure
    /\ pc' = "done"
    /\ UNCHANGED <<gblExitRequested, errno, bytesRead, buf, off, failure, session,
                   log, cleanup, reported, hist, exitCause, sigAt, out, intr>>

Next ==
    \/ handle_signals
    \/ InotifyInit
    \/ AddWatch
    \/ CheckFlag
    \/ EnterRead
    \/ ReadInterrupted
    \/ ReadIoError
    \/ ReadShort
    \/ ReadSuccess
    \/ DumpEvent
    \/ DumpDone
    \/ PostLoop
    \/ RmWatch
    \/ Close
    \/ Return

Spec == Init /\ [][Next]_vars

(***************************************************************************)
(* The program under fair scheduling: main takes its next step whenever it *)
(* has one, and a read() that was blocked when the handler ran returns     *)
(* EINTR (sa_flags = 0, no SA_RESTART).  Nothing obliges the environment   *)
(* to deliver a filesystem event, an error or a signal.                    *)
(***************************************************************************)
\* the steps main takes on its own, without waiting for the kernel
MainStep ==
    \/ InotifyInit
    \/ AddWatch
    \/ CheckFlag
    \/ EnterRead
    \/ DumpEvent
    \/ DumpDone
    \/ PostLoop
    \/ RmWatch
    \/ Close
    \/ Return

\* the blocked read() is woken by the signal whose handler ran meanwhile
SignalWakesRead == intr /\ ReadInterrupted

LiveSpec ==
    /\ Init
    /\ [][Next]_vars
    /\ WF_vars(MainStep)
    /\ WF_vars(SignalWakesRead)

(***************************************************************************)
(* The inner record loop on its own (lines 134-140), applied to any buffer *)
(* contents and any byte count up to the buffer's length, including 0 and  *)
(* counts that cut the last record short.                                  *)
(***************************************************************************)
\* largest number of records in a buffer handed to the inner loop alone
MaxSegRecs == 2

\* byte counts tried for a buffer of total bytes: every multiple of 8
CountsUpTo(total) == {n \in 0..total : n % 8 = 0}

SegInit ==
    /\ pc = "dispatch"
    /\ gblExitRequested = FALSE
    /\ errno = "E0"
    /\ buf \in SeqsOf(Records, 0, MaxSegRecs)
    /\ bytesRead \in CountsUpTo(TotalLen(buf))
    /\ off = 0
    /\ failure = 0
    /\ exitCode = -1
    /\ session = "watching"
    /\ log = <<>>
    /\ cleanup = <<>>
    /\ reported = "none"
    /\ hist = <<>>
    /\ exitCause = "none"
    /\ sigAt = "none"
    /\ out = <<>>
    /\ intr = FALSE

SegNext == DumpEvent \/ DumpDone

SegSpec == SegInit /\ [][SegNext]_vars

(***************************************************************************)
(* dump_inotify_event on its own (lines 29-70 through line 138), applied   *)
(* to one-record buffers over a wide range of header contents.             *)
(***************************************************************************)
\* largest number of flag bits set together in a mask
MaxFlags == 2

RECURSIVE SumOf(_)
\* the sum of a finite set of numbers
SumOf(S) == IF S = {} THEN 0 ELSE LET x == CHOOSE x \in S : TRUE
                                  IN  x + SumOf(S \ {x})

\* the sixteen flag bits
FlagBits == {codes[i].bit : i \in 1..Len(codes)}

\* every mask with 1..MaxFlags of the sixteen flag bits set
DecMasks ==
    {SumOf(B) : B \in {B \in SUBSET FlagBits : Cardinality(B) \in 1..MaxFlags}}

\* one record for every combination of watch descriptor (-1 on a queue
\* overflow), mask, cookie and name (none, or "ab" padded to 16 bytes)
DecRecords ==
    { [wd |-> w, mask |-> m, cookie |-> c, len |-> Len(n), name |-> n] :
        w \in {-1, 1, 258}, m \in DecMasks, c \in {0, 70000},
        n \in {<<>>, Pad(<<97, 98>>, 16)} }

DecInit ==
    /\ pc = "dispatch"
    /\ gblExitRequested = FALSE
    /\ errno = "E0"
    /\ buf \in {<<r>> : r \in DecRecords}
    /\ bytesRead = TotalLen(buf)
    /\ off = 0
    /\ failure = 0
    /\ exitCode = -1
    /\ session = "watching"
    /\ log = <<>>
    /\ cleanup = <<>>
    /\ reported = "none"
    /\ hist = <<>>
    /\ exitCause = "none"
    /\ sigAt = "none"
    /\ out = <<>>
    /\ intr = FALSE

DecNext == DumpEvent \/ DumpDone

DecSpec == DecInit /\ [][DecNext]_vars

(***************************************************************************)
(* Vocabulary of the properties                                            *)
(***************************************************************************)
\* positions of main after the run loop has been left
PostPcs == {"post", "rmwatch", "close", "return", "done"}

\* positions inside the run loop
LoopPcs == {"check", "call", "blocked", "dispatch"}

\* positions after lines 143-156 have run
DecidedPcs == {"rmwatch", "close", "return", "done"}

\* the names of the cleanup calls made, in order
Ops(c) == [i \in 1..Len(c) |-> c[i].op]

\* what dumping every record of recs once, in buffer order, looks like
Expected(recs) ==
    [i \in 1..Len(recs) |->
        [off |-> StartOf(recs, i), size |-> RecSize(recs[i]),
         mask |-> recs[i].mask, len |-> recs[i].len]]

\* the walking pointer always stands on the start of a record or on the end
WalkOnRecordStarts ==
    pc = "dispatch" =>
        \/ off = TotalLen(buf)
        \/ \E i \in 1..Len(buf) : StartOf(buf, i) = off

(***************************************************************************)
(* C1                                                                      *)
(***************************************************************************)
\* C1: when the loop ended because the flag was seen set (no fatal read
\* outcome), main returns 0 - whatever the last read returned, and also when
\* the flag was set before the first read.
C1_FlagExitIsClean ==
    (pc = "done" /\ exitCause = "flag") => exitCode = 0

(***************************************************************************)
(* C2                                                                      *)
(***************************************************************************)
\* C2: a read that succeeds with fewer bytes than one header ends the loop
\* as a failure: nothing is dumped for it, no further read is issued and
\* main returns 1, whatever outcomes came before.
C2_ShortReadFails ==
    Last(hist) = "Short" =>
        /\ pc \in PostPcs
        /\ exitCause = "short"
        /\ log = <<>>
        /\ pc = "done" => exitCode = 1

(***************************************************************************)
(* C3                                                                      *)
(***************************************************************************)
\* C3 as claimed: a read that succeeds with 0 bytes dumps nothing and leaves
\* the loop running (flag check, then another read).
C3_ZeroReadKeepsRunning ==
    (Last(hist) = "Short" /\ bytesRead = 0) =>
        /\ log = <<>>
        /\ pc \in LoopPcs
        /\ exitCause = "none"

\* C3 amended: a read that succeeds with 0 bytes dumps nothing and ends the
\* loop as a short read: no further read is issued and main goes on to the
\* cleanup and returns.
C3_ZeroReadEndsLoop ==
    (Last(hist) = "Short" /\ bytesRead = 0) =>
        /\ log = <<>>
        /\ pc \in PostPcs
        /\ exitCause = "short"

\* a 0-byte read has been taken and main has returned
C3_Witness ==
    /\ Last(hist) = "Short"
    /\ bytesRead = 0
    /\ pc = "done"
    /\ Ops(cleanup) = <<"rm_watch", "close">>

(***************************************************************************)
(* C4                                                                      *)
(***************************************************************************)
\* a step in which read() returns
ReadReturned == pc = "blocked" /\ pc' # "blocked"

\* C4: a read that fails with EINTR while the flag is unset keeps the loop
\* running and the next step of main starts another read: nothing is dumped,
\* no cleanup runs, the loop is not left.  After any run of interruptions
\* the records of the next successful read are all dumped, and a run that
\* ends with the flag seen right after an interruption returns 0.
C4_InterruptRetries ==
    [][ /\ (ReadReturned /\ Last(hist') = "Interrupted") =>
              /\ pc' = "check"
              /\ log' = <<>>
           /\ out' = <<>>
           /\ intr' = FALSE
              /\ cleanup' = cleanup /\ cleanup = <<>>
              /\ exitCause' = "none"
              /\ session' = "watching"
        /\ (pc = "check" /\ Last(hist) = "Interrupted" /\ ~gblExitRequested
                         /\ pc' # pc) =>
              /\ pc' = "call"
              /\ UNCHANGED <<log, cleanup, exitCause, failure, session>>
        /\ (pc = "call" /\ pc' # pc) => pc' = "blocked"
        /\ (pc = "dispatch" /\ pc' = "check" /\ Prev(hist) = "Interrupted") =>
              log' = Expected(buf)
        /\ (pc' = "done" /\ exitCause' = "flag" /\ Last(hist') = "Interrupted") =>
              exitCode' = 0
      ]_vars

\* two interruptions with the flag unset, then a read whose two records
\* have both been dumped
C4_Witness ==
    /\ hist = <<"Interrupted", "Interrupted", "Success">>
    /\ ~gblExitRequested
    /\ pc = "check"
    /\ Len(log) = 2
    /\ log = Expected(buf)

(***************************************************************************)
(* C5                                                                      *)
(***************************************************************************)
\* C5: a read that fails with an error other than EINTR ends the loop as a
\* failure: no further read is issued and nothing more is dumped, the error
\* is reported and main returns 1, whatever outcomes came before.
C5_IoErrorFails ==
    Last(hist) = "IoError" =>
        /\ pc \in PostPcs
        /\ exitCause = "ioerror"
        /\ log = <<>>
        /\ pc \in DecidedPcs => (reported = "io" /\ failure = 1)
        /\ pc = "done" => exitCode = 1

\* an interruption, a successful read, then an I/O error: main has returned 1
C5_Witness ==
    /\ hist = <<"Interrupted", "Success", "IoError">>
    /\ pc = "done"
    /\ exitCode = 1
    /\ reported = "io"

(***************************************************************************)
(* C6                                                                      *)
(***************************************************************************)
\* C6: when the flag is set as read() returns EINTR, the next step of main
\* leaves the loop without another read; main returns 0, reports no I/O
\* error, and calls inotify_rm_watch and close exactly once each.
C6_FlagAtInterruptStops ==
    [][ /\ (pc = "check" /\ Last(hist) = "Interrupted" /\ gblExitRequested
                         /\ pc' # pc) =>
              (pc' = "post" /\ exitCause' = "flag" /\ hist' = hist)
        /\ (exitCause' = "flag" /\ Last(hist') = "Interrupted") =>
              /\ pc' \in PostPcs
              /\ pc' \in DecidedPcs => (reported' = "none" /\ failure' = 0)
              /\ pc' = "done" =>
                    (exitCode' = 0 /\ Ops(cleanup') = <<"rm_watch", "close">>)
      ]_vars

\* the signal arrived while read() was blocked, read() returned EINTR and
\* main has returned
C6_Witness ==
    /\ sigAt = "blocked"
    /\ Last(hist) = "Interrupted"
    /\ exitCause = "flag"
    /\ pc = "done"
    /\ exitCode = 0

(***************************************************************************)
(* C7                                                                      *)
(***************************************************************************)
\* C7: on every way out of the run loop, inotify_rm_watch is called exactly
\* once and then close exactly once, before main returns its exit code.
C7_CleanupOnceInOrder ==
    /\ pc \in LoopPcs \cup {"post", "rmwatch"} => cleanup = <<>>
    /\ pc = "close" => Ops(cleanup) = <<"rm_watch">>
    /\ pc = "return" => Ops(cleanup) = <<"rm_watch", "close">>
    /\ (pc = "done" /\ exitCause # "none") => Ops(cleanup) = <<"rm_watch", "close">>
    /\ (exitCode # -1 /\ exitCause # "none") =>
          Ops(cleanup) = <<"rm_watch", "close">>
    /\ pc = "post" => exitCause # "none"

\* main has returned after a failed loop, with both cleanup calls made
C7_Witness ==
    /\ pc = "done"
    /\ exitCause = "ioerror"
    /\ Ops(cleanup) = <<"rm_watch", "close">>

\* main has returned after a cancelled loop, with both cleanup calls made
C7_WitnessStopping ==
    /\ pc = "done"
    /\ exitCause = "flag"
    /\ Ops(cleanup) = <<"rm_watch", "close">>

(***************************************************************************)
(* C8                                                                      *)
(***************************************************************************)
\* C8: after a read of at least one header every record of the buffer is
\* dumped exactly once, in buffer order, all of them before the next read
\* begins, and the loop is still running afterwards; a flag set during the
\* dumping does not cut it short.
C8_AllDumpedInOrder ==
    /\ (Last(hist) = "Success" /\ pc = "dispatch") =>
          /\ Len(log) <= Len(buf)
          /\ log = SubSeq(Expected(buf), 1, Len(log))
          /\ exitCause = "none"
    /\ (Last(hist) = "Success" /\ pc # "dispatch") =>
          /\ log = Expected(buf)
          /\ exitCause \in {"none", "flag"}
    /\ (Last(hist) = "Success" /\ pc \in {"call", "blocked"}) =>
          exitCause = "none"

\* the flag was set while a two-record buffer was being dumped, and both
\* records were dumped before the loop saw the flag
C8_Witness ==
    /\ sigAt = "dispatch"
    /\ Last(hist) = "Success"
    /\ Len(buf) = 2
    /\ buf[1] # buf[2]
    /\ log = Expected(buf)
    /\ exitCause = "flag"

(***************************************************************************)
(* C9                                                                      *)
(***************************************************************************)
\* the (offset, length) pairs of a dump log
Slices(l) == [i \in 1..Len(l) |-> <<l[i].off, l[i].size>>]

RECURSIVE Boundaries(_, _)
\* the record boundaries of recs laid out back to back from offset o
Boundaries(recs, o) ==
    IF recs = <<>> THEN <<>>
    ELSE <<(<<o, HeaderSize + Head(recs).len>>)>>
            \o Boundaries(Tail(recs), o + HeaderSize + Head(recs).len)

\* C9: for a buffer that is K whole records back to back (K >= 0), the inner
\* loop yields exactly K records, the i-th starting at the sum of the
\* lengths of the records before it and spanning that record's length, in
\* the original order.
C9_SegmentsMatchRecords ==
    (bytesRead = TotalLen(buf) /\ pc = "check") =>
        /\ Len(log) = Len(buf)
        /\ Slices(log) = Boundaries(buf, 0)
        /\ off = bytesRead

\* a buffer of two whole records of different lengths has been walked
C9_Witness ==
    /\ pc = "check"
    /\ Len(buf) = 2
    /\ buf[1].len # buf[2].len
    /\ bytesRead = TotalLen(buf)
    /\ Len(log) = 2

\* the empty buffer has been walked
C9_WitnessEmpty ==
    /\ pc = "check"
    /\ buf = <<>>
    /\ bytesRead = 0
    /\ log = <<>>

(***************************************************************************)
(* C10                                                                     *)
(***************************************************************************)
\* C10: the flag decides a step of main only at the while condition, which
\* is reached right before a read would start and right after an EINTR.
\* Elsewhere a set flag changes nothing main does; once the flag has been
\* seen set there, no read is started and nothing more is dumped.
C10_FlagSeenOnlyAtCheck ==
    [][ /\ (exitCause = "none" /\ exitCause' = "flag") =>
              (pc = "check" /\ gblExitRequested /\ pc' = "post")
        /\ (pc = "check" /\ pc' # pc) =>
              IF gblExitRequested THEN pc' = "post" /\ exitCause' = "flag"
                                  ELSE pc' = "call" /\ exitCause' = "none"
        /\ (pc' = "check" /\ pc # "check") =>
              \/ pc = "addwatch"
              \/ pc = "dispatch" /\ Last(hist) = "Success"
              \/ pc = "blocked" /\ Last(hist') = "Interrupted"
        /\ (pc = "call" /\ pc' # pc) => pc' = "blocked"
        /\ (pc = "dispatch" /\ MoreEvents(off, bytesRead) /\ log' # log) =>
              (pc' = "dispatch" /\ Len(log') = Len(log) + 1)
        /\ (pc = "dispatch" /\ pc' # pc) =>
              (~MoreEvents(off, bytesRead) /\ pc' = "check")
        /\ exitCause = "flag" =>
              /\ pc' \in PostPcs
              /\ UNCHANGED <<log, hist, bytesRead, buf, off, exitCause>>
      ]_vars

\* the flag was set while read() was blocked, the read still delivered a
\* record that was dumped, and the loop then stopped at the while condition
C10_Witness ==
    /\ sigAt = "blocked"
    /\ Last(hist) = "Success"
    /\ log = Expected(buf)
    /\ exitCause = "flag"
    /\ pc = "done"

(***************************************************************************)
(* C11                                                                     *)
(***************************************************************************)
\* C11: when inotify_init fails main returns 1 having called neither
\* inotify_add_watch, read, inotify_rm_watch nor close.  When
\* inotify_add_watch fails the descriptor is closed exactly once,
\* inotify_rm_watch is not called, no read is issued, nothing is dumped and
\* main returns 1.
C11_SetupFailures ==
    /\ session = "unopened" =>
          /\ pc \in {"init", "done"}
          /\ cleanup = <<>> /\ hist = <<>> /\ log = <<>>
          /\ pc = "done" => exitCode = 1
    /\ (pc = "done" /\ exitCause = "none" /\ session # "unopened") =>
          /\ session = "closed"
          /\ Ops(cleanup) = <<"close">>
          /\ hist = <<>> /\ log = <<>>
          /\ exitCode = 1
    /\ (exitCause = "none" /\ pc \notin LoopPcs) => pc \in {"init", "addwatch", "done"}

\* inotify_add_watch has failed and main has returned
C11_Witness ==
    /\ pc = "done"
    /\ session = "closed"
    /\ exitCause = "none"
    /\ Ops(cleanup) = <<"close">>
    /\ exitCode = 1

\* inotify_init has failed and main has returned
C11_WitnessInit ==
    /\ pc = "done"
    /\ session = "unopened"
    /\ exitCode = 1

(***************************************************************************)
(* C12                                                                     *)
(***************************************************************************)
\* the names of the flags whose bit is set in mask m
NamedFlagsIn(m) ==
    {codes[k].name : k \in {k \in 1..Len(codes) : (m \div codes[k].bit) % 2 = 1}}

\* C12: for every mask over the sixteen named flags, the categories reported
\* for an event are exactly the named flags whose bit is set in the mask:
\* every set flag is reported, no unset flag is, and each is reported once.
C12_CategoriesAreSetBits ==
    \A i \in 1..Len(out) :
        /\ {out[i].cats[j] : j \in 1..Len(out[i].cats)} = NamedFlagsIn(buf[i].mask)
        /\ Len(out[i].cats) = Cardinality(NamedFlagsIn(buf[i].mask))

\* an event with IN_CREATE and IN_ISDIR both set has been dumped, and both
\* were reported
C12_Witness ==
    /\ Len(out) = 1
    /\ buf[1].mask = IN_CREATE + IN_ISDIR
    /\ out[1].cats = <<"IN_CREATE", "IN_ISDIR">>

(***************************************************************************)
(* C13                                                                     *)
(***************************************************************************)
RECURSIVE TrimNul(_)
\* a name field without its trailing NUL bytes
TrimNul(n) ==
    IF n = <<>> THEN <<>>
    ELSE IF n[Len(n)] = 0 THEN TrimNul(SubSeq(n, 1, Len(n) - 1)) ELSE n

\* record r decodes to what was dumped as d
RoundTrip(r, d) ==
    /\ d.wd = r.wd
    /\ d.cookie = r.cookie
    /\ d.mask = r.mask
    /\ {d.cats[j] : j \in 1..Len(d.cats)} = NamedFlagsIn(r.mask)
    /\ d.name = TrimNul(r.name)

\* C13: dumping a record written as (wd, mask, cookie, name) gives back the
\* same wd, cookie, category set and name, the name taken from the len
\* bytes of the record with trailing NULs trimmed; a record with len = 0
\* gives an empty name, and no byte outside the record contributes.
C13_DecodeRoundTrip ==
    \A i \in 1..Len(out) :
        /\ RoundTrip(buf[i], out[i])
        /\ buf[i].len = 0 => out[i].name = <<>>

\* the part of C13 that the code meets: records that carry a name
C13_NamedRecordsRoundTrip ==
    \A i \in 1..Len(out) : buf[i].len > 0 => RoundTrip(buf[i], out[i])

(***************************************************************************)
(* C14                                                                     *)
(***************************************************************************)
\* C14: when the run loop has ended, both clean-up calls are made, close
\* after rm_watch whatever rm_watch returned, and the exit code is 1 exactly
\* when a loop-exit diagnosis was reported, whatever the two calls returned;
\* when add_watch failed the exit code is 1 whatever close returned.
C14_ExitCodeIgnoresCleanup ==
    pc = "done" =>
        IF exitCause # "none"
           THEN /\ Ops(cleanup) = <<"rm_watch", "close">>
                /\ exitCode = (IF reported = "none" THEN 0 ELSE 1)
           ELSE exitCode = 1

\* a clean exit after both clean-up calls failed
C14_Witness ==
    /\ pc = "done"
    /\ exitCause = "flag"
    /\ Len(cleanup) = 2
    /\ ~cleanup[1].ok
    /\ ~cleanup[2].ok
    /\ exitCode = 0

\* a failed set-up whose close failed too
C14_WitnessSetup ==
    /\ pc = "done"
    /\ exitCause = "none"
    /\ cleanup = <<[op |-> "close", ok |-> FALSE]>>
    /\ exitCode = 1

(***************************************************************************)
(* C15                                                                     *)
(***************************************************************************)
\* C15: for a byte count n of at least one header, every record the inner
\* loop interprets and dumps lies wholly below offset n, and the walk ends at
\* or before n: a trailing fragment cut short by n yields nothing.
C15_NothingAtOrBeyondCount ==
    bytesRead >= HeaderSize =>
        /\ \A i \in 1..Len(log) : log[i].off + log[i].size <= bytesRead
        /\ off <= bytesRead

(***************************************************************************)
(* C16                                                                     *)
(***************************************************************************)
\* C16: once the cancellation flag is set, main eventually returns, at
\* whatever point of the loop the handler ran.
C16_CancellationNeverLost == gblExitRequested ~> (pc = "done")

\* the same, leaving out the one window between the loop condition and the
\* moment read() blocks: a flag set at any other point is acted upon
C16_CancellationSeenOutsideWindow ==
    (gblExitRequested /\ pc # "call" /\ ~(pc = "blocked" /\ ~intr)) ~> (pc = "done")

(***************************************************************************)
(* C17                                                                     *)
(***************************************************************************)
\* C17: main is in the run loop (flag test, read, dispatch) only while the
\* descriptor is open with its watch registered; once close has been called
\* the session stays closed and no read, dump, rm_watch or close happens
\* again: all that is left is returning the exit code.
C17_ReadOnlyWhileWatching ==
    [][ /\ pc \in LoopPcs => session = "watching"
        /\ pc' \in LoopPcs => session' = "watching"
        /\ session = "closed" =>
              /\ session' = "closed"
              /\ pc' \in {"return", "done"}
              /\ hist' = hist
              /\ bytesRead' = bytesRead
              /\ log' = log
              /\ out' = out
              /\ cleanup' = cleanup ]_vars

\* the program has read and dumped, left the loop, closed and returned
C17_Witness ==
    /\ pc = "done"
    /\ session = "closed"
    /\ Last(hist) = "Success"
    /\ Len(out) > 0
    /\ Ops(cleanup) = <<"rm_watch", "close">>

(***************************************************************************)
(* C18                                                                     *)
(***************************************************************************)
\* C18: every turn of the inner loop moves the offset forward by at least
\* one header, so after k records the offset is at least k headers and, for
\* a byte count n, k is at most ceil(n / header size); the loop then hands
\* control back to the run loop with the offset at or past n.
C18_SegmentingTerminates ==
    /\ \A i \in 1..Len(log) : log[i].size >= HeaderSize
    /\ off >= HeaderSize * Len(log)
    /\ HeaderSize * Len(log) < bytesRead + HeaderSize
    /\ pc = "check" => off >= bytesRead

\* two header-only records in 32 bytes: the bound met exactly, loop left
C18_Witness ==
    /\ pc = "check"
    /\ bytesRead = 2 * HeaderSize
    /\ Len(log) = 2
    /\ off = bytesRead

(***************************************************************************)
(* C19                                                                     *)
(***************************************************************************)
\* C19: the flag is unset until the handler has run; a step that changes the
\* flag sets it and changes nothing else of the program's state; no step,
\* of the loop or of the clean-up, clears it.
C19_HandlerSetsOnlyTheFlag ==
    [][ /\ sigAt = "none" => ~gblExitRequested
        /\ gblExitRequested => gblExitRequested'
        /\ gblExitRequested' # gblExitRequested =>
              /\ gblExitRequested'
              /\ sigAt = "none" /\ sigAt' = pc
              /\ UNCHANGED <<pc, errno, bytesRead, buf, off, failure, exitCode,
                             session, log, cleanup, reported, hist, exitCause, out>> ]_vars

\* the handler ran during a dispatch; the loop, the clean-up and the return
\* followed and the flag is still set
C19_Witness ==
    /\ sigAt = "dispatch"
    /\ gblExitRequested
    /\ pc = "done"
    /\ Len(cleanup) = 2

====
